---------------------------- MODULE Spec2Model ----------------------------
(***************************************************************************)
(* Car_Rental: the rental (booking) handlers of the Express/Mongoose       *)
(* server.  Every request handler is an async function; each `await` on    *)
(* the store is one atomic step, and the steps of concurrent requests      *)
(* interleave freely.  The store is the only shared state.                 *)
(*                                                                         *)
(* Dates are instants 0..MaxInstant; DayOf gives the calendar day of an    *)
(* instant (SlotsPerDay instants per day).  `today` is the server's        *)
(* current calendar day.                                                   *)
(***************************************************************************)
EXTENDS Integers, FiniteSets, Sequences, TLC

\* ------------------------------------------------------------------ bounds
MaxInstant == 2
SlotsPerDay == 2
MaxRentals == 2

Instants == 0..MaxInstant
DayOf(t) == t \div SlotsPerDay
Days == 0..DayOf(MaxInstant)

Handlers == {"h1", "h2"}
CarIds == {"car1", "car2"}
\* well-formed ids; client2 and emp2 name no stored document
ClientIds == {"client1", "client2"}
EmployeeIds == {"emp1", "emp2"}
\* the Client and Employee collections (no request of the model edits them)
StoredClients == {"client1"}
StoredEmployees == {"emp1"}
RentalIds == 1..MaxRentals

\* absent request fields (undefined in req.body)
NoId == "none"
NoDate == -1
NoStatus == "none"
NoCost == -2

RentalStatuses == {"active", "completed", "cancelled"}
CarStatuses == {"available", "maintenance"}

\* ----------------------------------------------------------- the store
NoRental == [car |-> NoId, client |-> NoId, employee |-> NoId,
             startDate |-> NoDate, endDate |-> NoDate,
             totalCost |-> NoCost, status |-> NoStatus]

\* call: the function call under evaluation outside the request handlers
\* (a method of the browser's API client, or one evaluation of the overlap
\* query on its own)
VARIABLES cars, rentals, nextId, today, proc, resp, call

vars == <<cars, rentals, nextId, today, proc, resp, call>>

NoCall == [fn |-> "none"]

\* clientNow stands for a field the schema and the handlers do not know
\* (the day the client's clock shows)
NoBody == [car |-> NoId, client |-> NoId, employee |-> NoId,
           startDate |-> NoDate, endDate |-> NoDate,
           totalCost |-> NoCost, status |-> NoStatus, clientNow |-> NoDate]

Idle == [pc |-> "idle", op |-> "none", id |-> 0, body |-> NoBody,
         start |-> NoDate, end |-> NoDate, oldCar |-> NoId, oldStatus |-> NoStatus]

\* One handler slot per concurrently running request.
InitStore(H) ==
    /\ cars = [c \in CarIds |-> "available"]
    /\ rentals = [i \in RentalIds |-> NoRental]
    /\ nextId = 1
    /\ today = 0
    /\ proc = [h \in H |-> Idle]
    /\ resp = [h \in H |-> "none"]

InitWith(H) == InitStore(H) /\ call = NoCall

Init == InitWith({"h1"})

\* --------------------------------------------------------- pure helpers
\* utils/validators.js: mongoose.Types.ObjectId.isValid
IsValidObjectId(id) == id \in CarIds \cup ClientIds \cup EmployeeIds

\* sanitize.js rentalValidation + handleValidationErrors (POST and PUT routes)
RentalValidation(body) ==
    /\ body.car # NoId /\ IsValidObjectId(body.car)
    /\ body.client # NoId /\ IsValidObjectId(body.client)
    /\ body.employee # NoId /\ IsValidObjectId(body.employee)
    /\ body.startDate # NoDate
    /\ body.endDate # NoDate
    /\ body.totalCost # NoCost /\ body.totalCost >= 0
    /\ body.status \in RentalStatuses \cup {NoStatus}

\* variants of the overlap query: strict comparisons (half-open intervals),
\* the first clause alone, the second clause alone
OverlapQueryHalfOpen(S, E, start, end) == S < end /\ start < E

OverlapQueryStartOnly(S, E, start, end) == S <= start /\ E >= start

OverlapQueryEndOnly(S, E, start, end) == S <= end /\ E >= end

\* variant of the query without its third clause
OverlapQueryNoEncompass(S, E, start, end) ==
    \/ (S <= start /\ E >= start)
    \/ (S <= end /\ E >= end)

\* the three-clause $or of the overlap query, for stored dates S, E
\* against the candidate start, end
OverlapQuery(S, E, start, end) ==
    \/ (S <= start /\ E >= start)
    \/ (S <= end /\ E >= end)
    \/ (S >= start /\ E <= end)

\* variant of the query without the status filter
OverlappingRentalsAnyStatus(carId, start, end, excludeId) ==
    {i \in RentalIds :
        /\ rentals[i] # NoRental
        /\ i # excludeId
        /\ rentals[i].car = carId
        /\ OverlapQuery(rentals[i].startDate, rentals[i].endDate, start, end)}

\* variant of the query without the exclusion of the rental's own id
OverlappingRentalsNoExclude(carId, start, end, excludeId) ==
    {i \in RentalIds :
        /\ rentals[i] # NoRental
        /\ rentals[i].car = carId
        /\ rentals[i].status = "active"
        /\ OverlapQuery(rentals[i].startDate, rentals[i].endDate, start, end)}

\* Rental.find({ _id: {$ne: excludeId}, car, status: 'active', $or: [...] })
OverlappingRentals(carId, start, end, excludeId) ==
    {i \in RentalIds :
        /\ rentals[i] # NoRental
        /\ i # excludeId
        /\ rentals[i].car = carId
        /\ rentals[i].status = "active"
        /\ OverlapQuery(rentals[i].startDate, rentals[i].endDate, start, end)}

\* variant of the checks with end < start in place of end <= start
CreateValidateStrict(body, day) ==
    IF ~IsValidObjectId(body.car) THEN "Invalid car ID"
    ELSE IF ~IsValidObjectId(body.client) THEN "Invalid client ID"
    ELSE IF ~IsValidObjectId(body.employee) THEN "Invalid employee ID"
    ELSE IF body.totalCost # NoCost /\ body.totalCost < 0
        THEN "Total cost must be a positive number"
    ELSE IF DayOf(body.startDate) < day THEN "Start date cannot be in the past"
    ELSE IF body.endDate < body.startDate THEN "End date must be after start date"
    ELSE "ok"

\* variant of the checks that also rejects a start on the current day
CreateValidatePastInclusive(body, day) ==
    IF ~IsValidObjectId(body.car) THEN "Invalid car ID"
    ELSE IF ~IsValidObjectId(body.client) THEN "Invalid client ID"
    ELSE IF ~IsValidObjectId(body.employee) THEN "Invalid employee ID"
    ELSE IF body.totalCost # NoCost /\ body.totalCost < 0
        THEN "Total cost must be a positive number"
    ELSE IF DayOf(body.startDate) <= day THEN "Start date cannot be in the past"
    ELSE IF body.endDate <= body.startDate THEN "End date must be after start date"
    ELSE "ok"

\* variant of the checks that takes the current day from the request when
\* the request carries one
CreateValidateClientClock(body, day) ==
    IF ~IsValidObjectId(body.car) THEN "Invalid car ID"
    ELSE IF ~IsValidObjectId(body.client) THEN "Invalid client ID"
    ELSE IF ~IsValidObjectId(body.employee) THEN "Invalid employee ID"
    ELSE IF body.totalCost # NoCost /\ body.totalCost < 0
        THEN "Total cost must be a positive number"
    ELSE IF DayOf(body.startDate) < (IF body.clientNow # NoDate THEN body.clientNow ELSE day)
        THEN "Start date cannot be in the past"
    ELSE IF body.endDate <= body.startDate THEN "End date must be after start date"
    ELSE "ok"

\* variant of the checks that compares the calendar days of end and start
CreateValidateDayGranular(body, day) ==
    IF ~IsValidObjectId(body.car) THEN "Invalid car ID"
    ELSE IF ~IsValidObjectId(body.client) THEN "Invalid client ID"
    ELSE IF ~IsValidObjectId(body.employee) THEN "Invalid employee ID"
    ELSE IF body.totalCost # NoCost /\ body.totalCost < 0
        THEN "Total cost must be a positive number"
    ELSE IF DayOf(body.startDate) < day THEN "Start date cannot be in the past"
    ELSE IF DayOf(body.endDate) <= DayOf(body.startDate)
        THEN "End date must be after start date"
    ELSE "ok"

\* createRental, the synchronous checks before the first await
CreateValidate(body, day) ==
    IF ~IsValidObjectId(body.car) THEN "Invalid car ID"
    ELSE IF ~IsValidObjectId(body.client) THEN "Invalid client ID"
    ELSE IF ~IsValidObjectId(body.employee) THEN "Invalid employee ID"
    ELSE IF body.totalCost # NoCost /\ body.totalCost < 0
        THEN "Total cost must be a positive number"
    ELSE IF DayOf(body.startDate) < day THEN "Start date cannot be in the past"
    ELSE IF body.endDate <= body.startDate THEN "End date must be after start date"
    ELSE "ok"

\* updateRental, the date block run when the patch carries a date
UpdateDatesPresent(body) == body.startDate # NoDate \/ body.endDate # NoDate

UpdateStart(body, old) == IF body.startDate # NoDate THEN body.startDate ELSE old.startDate

UpdateEnd(body, old) == IF body.endDate # NoDate THEN body.endDate ELSE old.endDate

\* variant of the date checks that applies the past check whatever the status
UpdateValidateDatesAnyStatus(body, old, day) ==
    IF DayOf(UpdateStart(body, old)) < day
        THEN "Start date cannot be in the past for active rentals"
    ELSE IF UpdateEnd(body, old) <= UpdateStart(body, old)
        THEN "End date must be after start date"
    ELSE "ok"

UpdateValidateDates(body, old, day) ==
    IF old.status = "active" /\ DayOf(UpdateStart(body, old)) < day
        THEN "Start date cannot be in the past for active rentals"
    ELSE IF UpdateEnd(body, old) <= UpdateStart(body, old)
        THEN "End date must be after start date"
    ELSE "ok"

\* updateRental, the checks between the overlap query and the car lookup
UpdateValidateRest(body) ==
    IF body.totalCost # NoCost /\ body.totalCost < 0
        THEN "Total cost must be a positive number"
    ELSE IF body.car # NoId /\ ~IsValidObjectId(body.car) THEN "Invalid car ID"
    ELSE IF body.client # NoId /\ ~IsValidObjectId(body.client) THEN "Invalid client ID"
    ELSE IF body.employee # NoId /\ ~IsValidObjectId(body.employee) THEN "Invalid employee ID"
    ELSE "ok"

CarChanged(body, oldCar) == body.car # NoId /\ body.car # oldCar

\* Rental.js pre(['findOneAndUpdate', 'findByIdAndUpdate']) hook
PreUpdateHook(body) ==
    IF body.startDate # NoDate /\ body.endDate # NoDate /\ body.endDate <= body.startDate
        THEN "End date must be after start date"
    ELSE "ok"

\* Rental.js pre('save') hook
PreSaveHook(doc) ==
    IF doc.endDate <= doc.startDate THEN "End date must be after start date" ELSE "ok"

\* variant of the created document that ignores the status of the body
NewRentalAlwaysActive(body) ==
    [car |-> body.car, client |-> body.client, employee |-> body.employee,
     startDate |-> body.startDate, endDate |-> body.endDate,
     totalCost |-> body.totalCost, status |-> "active"]

\* the document Rental.create builds from req.body (status defaults to active)
NewRental(body) ==
    [car |-> body.car, client |-> body.client, employee |-> body.employee,
     startDate |-> body.startDate, endDate |-> body.endDate,
     totalCost |-> body.totalCost,
     status |-> IF body.status = NoStatus THEN "active" ELSE body.status]

\* variant of the update that applies the schema default to an absent status
ApplyUpdateDefaultStatus(old, body) ==
    [car |-> IF body.car # NoId THEN body.car ELSE old.car,
     client |-> IF body.client # NoId THEN body.client ELSE old.client,
     employee |-> IF body.employee # NoId THEN body.employee ELSE old.employee,
     startDate |-> IF body.startDate # NoDate THEN body.startDate ELSE old.startDate,
     endDate |-> IF body.endDate # NoDate THEN body.endDate ELSE old.endDate,
     totalCost |-> IF body.totalCost # NoCost THEN body.totalCost ELSE old.totalCost,
     status |-> IF body.status # NoStatus THEN body.status ELSE "active"]

\* findByIdAndUpdate(id, req.body): every field present in the body is set
ApplyUpdate(old, body) ==
    [car |-> IF body.car # NoId THEN body.car ELSE old.car,
     client |-> IF body.client # NoId THEN body.client ELSE old.client,
     employee |-> IF body.employee # NoId THEN body.employee ELSE old.employee,
     startDate |-> IF body.startDate # NoDate THEN body.startDate ELSE old.startDate,
     endDate |-> IF body.endDate # NoDate THEN body.endDate ELSE old.endDate,
     totalCost |-> IF body.totalCost # NoCost THEN body.totalCost ELSE old.totalCost,
     status |-> IF body.status # NoStatus THEN body.status ELSE old.status]

\* ------------------------------------------------------ handler plumbing
Free(h) == proc[h].pc = "idle"

\* the response is sent: the slot keeps the finished request for inspection
\* (with what the request had loaded of the rental it amends)
Finish(h, p, msg) ==
    /\ proc' = [proc EXCEPT ![h] = [p EXCEPT !.pc = "done", !.start = NoDate,
                                             !.end = NoDate]]
    /\ resp' = [resp EXCEPT ![h] = msg]

Request(op, id, body) == [Idle EXCEPT !.op = op, !.id = id, !.body = body]

Goto(h, p) ==
    /\ proc' = [proc EXCEPT ![h] = p]
    /\ resp' = [resp EXCEPT ![h] = "pending"]

\* the response has gone out and the slot takes the next request
Respond(h) ==
    /\ proc[h].pc = "done"
    /\ proc' = [proc EXCEPT ![h] = Idle]
    /\ resp' = [resp EXCEPT ![h] = "none"]
    /\ UNCHANGED <<cars, rentals, nextId, today, call>>

\* ------------------------------------------------------------- requests
\* POST /api/rentals: rentalValidation (when the request comes through the
\* route), then createRental up to its first await
PostRental(h, body, viaRoute) ==
    /\ Free(h)
    /\ IF viaRoute /\ ~RentalValidation(body)
         THEN Finish(h, Request("create", 0, body), "Validation failed")
       ELSE IF CreateValidate(body, today) # "ok"
         THEN Finish(h, Request("create", 0, body), CreateValidate(body, today))
       ELSE Goto(h, [Request("create", 0, body) EXCEPT !.pc = "c_findCar",
                                 !.start = body.startDate, !.end = body.endDate])
    /\ UNCHANGED <<cars, rentals, nextId, today, call>>

\* variant of the car lookup without the maintenance check
CreateFindCarNoFlag(h) ==
    /\ proc[h].pc = "c_findCar"
    /\ LET body == proc[h].body IN
       IF cars[body.car] = "absent"
         THEN Finish(h, proc[h], "Car not found")
       ELSE Goto(h, [proc[h] EXCEPT !.pc = "c_findOverlap"])
    /\ UNCHANGED <<cars, rentals, nextId, today, call>>

\* createRental: Car.findById and the maintenance check
CreateFindCar(h) ==
    /\ proc[h].pc = "c_findCar"
    /\ LET body == proc[h].body IN
       IF cars[body.car] = "absent"
         THEN Finish(h, proc[h], "Car not found")
       ELSE IF cars[body.car] = "maintenance"
         THEN Finish(h, proc[h], "Car is currently in maintenance")
       ELSE Goto(h, [proc[h] EXCEPT !.pc = "c_findOverlap"])
    /\ UNCHANGED <<cars, rentals, nextId, today, call>>

\* createRental: the overlap query
CreateFindOverlap(h) ==
    /\ proc[h].pc = "c_findOverlap"
    /\ LET body == proc[h].body IN
       IF OverlappingRentals(body.car, proc[h].start, proc[h].end, 0) # {}
         THEN Finish(h, proc[h], "Car is already booked for the selected dates")
       ELSE Goto(h, [proc[h] EXCEPT !.pc = "c_create"])
    /\ UNCHANGED <<cars, rentals, nextId, today, call>>

\* createRental: Rental.create(req.body) and the 201 response
CreateInsert(h) ==
    /\ proc[h].pc = "c_create"
    /\ nextId <= MaxRentals
    /\ LET body == proc[h].body
           doc == NewRental(body) IN
       IF PreSaveHook(doc) # "ok"
         THEN /\ Finish(h, proc[h], PreSaveHook(doc))
              /\ UNCHANGED <<rentals, nextId>>
       ELSE /\ rentals' = [rentals EXCEPT ![nextId] = doc]
            /\ nextId' = nextId + 1
            /\ Finish(h, [proc[h] EXCEPT !.id = nextId], "201")
    /\ UNCHANGED <<cars, today, call>>

\* PUT /api/rentals/:id: rentalValidation (when the request comes through
\* the route), then updateRental up to Rental.findById
PutRental(h, id, body, viaRoute) ==
    /\ Free(h)
    /\ IF viaRoute /\ ~RentalValidation(body)
         THEN Finish(h, Request("update", id, body), "Validation failed")
       ELSE Goto(h, [Request("update", id, body) EXCEPT !.pc = "u_load"])
    /\ UNCHANGED <<cars, rentals, nextId, today, call>>

\* updateRental after the overlap query (or when no date is patched): cost
\* and id checks, then on to the car lookup or straight to the write
UpdateRest(h, p) ==
    IF UpdateValidateRest(p.body) # "ok"
      THEN Finish(h, p, UpdateValidateRest(p.body))
    ELSE IF CarChanged(p.body, p.oldCar)
      THEN Goto(h, [p EXCEPT !.pc = "u_findCar"])
    ELSE Goto(h, [p EXCEPT !.pc = "u_write"])

\* updateRental: oldRental is loaded, the dates are validated
UpdateLoad(h) ==
    /\ proc[h].pc = "u_load"
    /\ LET body == proc[h].body
           old == rentals[proc[h].id]
           p == [proc[h] EXCEPT !.oldCar = old.car, !.oldStatus = old.status] IN
       IF old = NoRental
         THEN Finish(h, proc[h], "Rental not found")
       ELSE IF ~UpdateDatesPresent(body)
         THEN UpdateRest(h, p)
       ELSE IF UpdateValidateDates(body, old, today) # "ok"
         THEN Finish(h, p, UpdateValidateDates(body, old, today))
       ELSE Goto(h, [p EXCEPT !.pc = "u_findOverlap",
                              !.start = UpdateStart(body, old),
                              !.end = UpdateEnd(body, old)])
    /\ UNCHANGED <<cars, rentals, nextId, today, call>>

\* updateRental: the overlap query against targetCarId, own id excluded
UpdateFindOverlap(h) ==
    /\ proc[h].pc = "u_findOverlap"
    /\ LET body == proc[h].body
           targetCarId == IF body.car # NoId THEN body.car ELSE proc[h].oldCar IN
       IF OverlappingRentals(targetCarId, proc[h].start, proc[h].end, proc[h].id) # {}
         THEN Finish(h, proc[h],
                     "Car is already booked for the selected dates")
       ELSE UpdateRest(h, proc[h])
    /\ UNCHANGED <<cars, rentals, nextId, today, call>>

\* variant of the car lookup without the maintenance check
UpdateFindCarNoFlag(h) ==
    /\ proc[h].pc = "u_findCar"
    /\ LET body == proc[h].body IN
       IF cars[body.car] = "absent"
         THEN Finish(h, proc[h], "Car not found")
       ELSE Goto(h, [proc[h] EXCEPT !.pc = "u_write"])
    /\ UNCHANGED <<cars, rentals, nextId, today, call>>

\* variant of the car lookup placed after the write: the patch is stored
\* before the maintenance check rejects the request
UpdateFindCarWriteFirst(h) ==
    /\ proc[h].pc = "u_findCar"
    /\ LET body == proc[h].body
           id == proc[h].id IN
       IF cars[body.car] = "maintenance"
         THEN /\ rentals' = [rentals EXCEPT ![id] =
                               IF rentals[id] = NoRental THEN NoRental
                               ELSE ApplyUpdate(rentals[id], body)]
              /\ Finish(h, proc[h], "Car is currently in maintenance")
       ELSE /\ Goto(h, [proc[h] EXCEPT !.pc = "u_write"])
            /\ UNCHANGED rentals
    /\ UNCHANGED <<cars, nextId, today, call>>

\* updateRental: Car.findById for a changed car
UpdateFindCar(h) ==
    /\ proc[h].pc = "u_findCar"
    /\ LET body == proc[h].body IN
       IF cars[body.car] = "absent"
         THEN Finish(h, proc[h], "Car not found")
       ELSE IF cars[body.car] = "maintenance"
         THEN Finish(h, proc[h], "Car is currently in maintenance")
       ELSE Goto(h, [proc[h] EXCEPT !.pc = "u_write"])
    /\ UNCHANGED <<cars, rentals, nextId, today, call>>

\* updateRental: Rental.findByIdAndUpdate(id, req.body) and the 200 response
UpdateWrite(h) ==
    /\ proc[h].pc = "u_write"
    /\ LET body == proc[h].body
           id == proc[h].id IN
       IF PreUpdateHook(body) # "ok"
         THEN /\ Finish(h, proc[h], PreUpdateHook(body))
              /\ UNCHANGED rentals
       ELSE IF rentals[id] = NoRental
         THEN /\ Finish(h, proc[h], "200 null")
              /\ UNCHANGED rentals
       ELSE /\ rentals' = [rentals EXCEPT ![id] = ApplyUpdate(rentals[id], body)]
            /\ Finish(h, proc[h], "200")
    /\ UNCHANGED <<cars, nextId, today, call>>

\* DELETE /api/rentals/:id: Rental.findByIdAndDelete
DeleteRental(h, id) ==
    /\ Free(h)
    /\ IF rentals[id] = NoRental
         THEN /\ Finish(h, Request("delete", id, NoBody), "Rental not found")
              /\ UNCHANGED rentals
       ELSE /\ rentals' = [rentals EXCEPT ![id] = NoRental]
            /\ Finish(h, Request("delete", id, NoBody), "200")
    /\ UNCHANGED <<cars, nextId, today, call>>

\* variant of the car update that cancels the car's ACTIVE rentals when the
\* car enters maintenance
UpdateCarCancelsRentals(c, status) ==
    /\ cars[c] \in CarStatuses
    /\ cars[c] # status
    /\ cars' = [cars EXCEPT ![c] = status]
    /\ rentals' = [i \in RentalIds |->
                     IF /\ status = "maintenance"
                        /\ rentals[i] # NoRental
                        /\ rentals[i].car = c
                        /\ rentals[i].status = "active"
                       THEN [rentals[i] EXCEPT !.status = "cancelled"]
                     ELSE rentals[i]]
    /\ UNCHANGED <<nextId, today, proc, resp, call>>

\* PUT /api/cars/:id: Car.findByIdAndUpdate sets the availability flag
UpdateCar(c, status) ==
    /\ cars[c] \in CarStatuses
    /\ cars[c] # status
    /\ cars' = [cars EXCEPT ![c] = status]
    /\ UNCHANGED <<rentals, nextId, today, proc, resp, call>>

\* DELETE /api/cars/:id: Car.findByIdAndDelete
DeleteCar(c) ==
    /\ cars[c] \in CarStatuses
    /\ cars' = [cars EXCEPT ![c] = "absent"]
    /\ UNCHANGED <<rentals, nextId, today, proc, resp, call>>

\* the server's calendar day advances
Tick ==
    /\ today < DayOf(MaxInstant)
    /\ today' = today + 1
    /\ UNCHANGED <<cars, rentals, nextId, proc, resp, call>>

\* ----------------------------------------------------- request inputs
Body(car, s, e, cost, status) ==
    [car |-> car, client |-> "client1", employee |-> "emp1",
     startDate |-> s, endDate |-> e, totalCost |-> cost, status |-> status,
     clientNow |-> NoDate]

WithClient(b, c) == [b EXCEPT !.client = c]

WithEmployee(b, e) == [b EXCEPT !.employee = e]

WithClock(b, d) == [b EXCEPT !.clientNow = d]

\* bodies of the rental form (no status), one with an invalid cost, two that
\* carry a status, two that name an unknown client or employee, and two that
\* carry a client clock
CreateBodies ==
    {Body(c, s, e, cost, NoStatus) : c \in CarIds, s \in Instants, e \in Instants,
                                     cost \in {1}}
    \cup {Body("car1", 0, 1, -1, NoStatus)}
    \cup {Body("car1", 0, 2, 1, "completed"), Body("car1", 1, 2, 1, "cancelled")}
    \cup {WithClient(Body("car1", 0, 1, 1, NoStatus), "client2"),
          WithEmployee(Body("car1", 1, 2, 1, NoStatus), "emp2")}
    \cup {WithClock(Body("car1", 0, 1, 1, NoStatus), d) : d \in Days}

\* full patches (what the PUT route lets through) and the partial patches
\* the controller provides for: no date at all, or one date alone
UpdateBodies ==
    {Body(c, s, e, 1, st) : c \in CarIds, s \in Instants, e \in Instants,
                            st \in RentalStatuses \cup {NoStatus}}
    \cup {Body(c, NoDate, NoDate, 1, st) : c \in CarIds \cup {NoId},
                                          st \in RentalStatuses \cup {NoStatus}}
    \cup {Body(NoId, s, NoDate, 1, NoStatus) : s \in Instants}
    \cup {Body(NoId, NoDate, e, 1, NoStatus) : e \in Instants}
    \cup {WithClock(Body("car1", 0, 1, 1, NoStatus), 0)}

\* the cars whose availability flag is edited
FlagCars == {"car2"}

\* a request reaches the controller through the route, or the controller is
\* invoked with the body as it is; the two differ only for a body that the
\* route's validation rejects
Entry(body) == IF RentalValidation(body) THEN {TRUE} ELSE BOOLEAN

Next ==
    \/ \E h \in DOMAIN proc : Free(h) /\ \E body \in CreateBodies :
          \E viaRoute \in Entry(body) : PostRental(h, body, viaRoute)
    \/ \E h \in DOMAIN proc : CreateFindCar(h)
    \/ \E h \in DOMAIN proc : CreateFindOverlap(h)
    \/ \E h \in DOMAIN proc : CreateInsert(h)
    \/ \E h \in DOMAIN proc : Free(h) /\ \E id \in RentalIds, body \in UpdateBodies :
          \E viaRoute \in Entry(body) : PutRental(h, id, body, viaRoute)
    \/ \E h \in DOMAIN proc : UpdateLoad(h)
    \/ \E h \in DOMAIN proc : UpdateFindOverlap(h)
    \/ \E h \in DOMAIN proc : UpdateFindCar(h)
    \/ \E h \in DOMAIN proc : UpdateWrite(h)
    \/ \E h \in DOMAIN proc, id \in RentalIds : DeleteRental(h, id)
    \/ \E h \in DOMAIN proc : Respond(h)
    \/ \E c \in FlagCars, status \in CarStatuses : UpdateCar(c, status)
    \/ Tick

Spec == Init /\ [][Next]_vars

\* ------------------------------------------- two concurrent requests
\* Two requests in flight at once, each through the route with a full body,
\* all on one car.
ConcCreateBodies ==
    {b \in {Body("car1", s, e, 1, NoStatus) : s \in Instants, e \in Instants} :
        b.endDate > b.startDate}

ConcUpdateBodies ==
    {b \in {Body("car1", s, e, 1, st) : s \in Instants, e \in Instants,
                                        st \in {"active", "cancelled"}} :
        b.endDate > b.startDate}

InitConc == InitWith(Handlers)

NextConc ==
    \/ \E h \in DOMAIN proc : Free(h) /\ \E body \in ConcCreateBodies :
          PostRental(h, body, TRUE)
    \/ \E h \in DOMAIN proc : CreateFindCar(h)
    \/ \E h \in DOMAIN proc : CreateFindOverlap(h)
    \/ \E h \in DOMAIN proc : CreateInsert(h)
    \/ \E h \in DOMAIN proc : Free(h) /\ \E id \in RentalIds, body \in ConcUpdateBodies :
          PutRental(h, id, body, TRUE)
    \/ \E h \in DOMAIN proc : UpdateLoad(h)
    \/ \E h \in DOMAIN proc : UpdateFindOverlap(h)
    \/ \E h \in DOMAIN proc : UpdateWrite(h)
    \/ \E h \in DOMAIN proc, id \in RentalIds : DeleteRental(h, id)
    \/ \E h \in DOMAIN proc : Respond(h)

SpecConc == InitConc /\ [][NextConc]_vars

\* --------------------------- two concurrent single-date patches
\* Two requests in flight at once on one car; updates carry one date alone
\* (the shape updateRental completes from the stored rental), and reach the
\* controller through the route or as they are.
PatchBodies ==
    {Body(NoId, s, NoDate, 1, NoStatus) : s \in Instants}
    \cup {Body(NoId, NoDate, e, 1, NoStatus) : e \in Instants}

NextPatch ==
    \/ \E h \in DOMAIN proc : Free(h) /\ \E body \in ConcCreateBodies :
          PostRental(h, body, TRUE)
    \/ \E h \in DOMAIN proc : CreateFindCar(h)
    \/ \E h \in DOMAIN proc : CreateFindOverlap(h)
    \/ \E h \in DOMAIN proc : CreateInsert(h)
    \/ \E h \in DOMAIN proc : Free(h) /\ \E id \in RentalIds, body \in PatchBodies :
          \E viaRoute \in Entry(body) : PutRental(h, id, body, viaRoute)
    \/ \E h \in DOMAIN proc : UpdateLoad(h)
    \/ \E h \in DOMAIN proc : UpdateFindOverlap(h)
    \/ \E h \in DOMAIN proc : UpdateWrite(h)
    \/ \E h \in DOMAIN proc : Respond(h)

SpecPatch == InitConc /\ [][NextPatch]_vars

\* ------------------------------------- amends next to other rentals
\* One request at a time, through the route, all on one car, over a range of
\* instants wide enough for two rentals of the car that neither overlap nor
\* touch.
WideInstants == 0..(MaxInstant + 1)

AmendBodies ==
    {Body("car1", s, e, 1, NoStatus) : s \in WideInstants, e \in WideInstants}

NextAmend ==
    \/ \E h \in DOMAIN proc : Free(h) /\ \E body \in AmendBodies :
          PostRental(h, body, TRUE)
    \/ \E h \in DOMAIN proc : CreateFindCar(h)
    \/ \E h \in DOMAIN proc : CreateFindOverlap(h)
    \/ \E h \in DOMAIN proc : CreateInsert(h)
    \/ \E h \in DOMAIN proc : Free(h) /\ \E id \in RentalIds, body \in AmendBodies :
          PutRental(h, id, body, TRUE)
    \/ \E h \in DOMAIN proc : UpdateLoad(h)
    \/ \E h \in DOMAIN proc : UpdateFindOverlap(h)
    \/ \E h \in DOMAIN proc : UpdateWrite(h)
    \/ \E h \in DOMAIN proc : Respond(h)
    \/ Tick

SpecAmend == Init /\ [][NextAmend]_vars

\* ------------------------------ one request at a time, through the routes
\* Each request completes before the next starts; every rental request comes
\* through its route, so every update carries the full field set; dates
\* range over the wide instants, bodies are well-formed intervals.
SeqCreateBodies ==
    {b \in {Body(c, s, e, 1, NoStatus) : c \in CarIds, s \in WideInstants,
                                         e \in WideInstants} :
        b.endDate > b.startDate}

SeqUpdateBodies ==
    {b \in {Body(c, s, e, 1, st) : c \in CarIds, s \in WideInstants,
                                   e \in WideInstants,
                                   st \in {NoStatus, "active", "cancelled"}} :
        b.endDate > b.startDate}

AllIdle == \A h \in DOMAIN proc : Free(h)

NextSeq ==
    \/ \E h \in DOMAIN proc : Free(h) /\ \E body \in SeqCreateBodies :
          PostRental(h, body, TRUE)
    \/ \E h \in DOMAIN proc : CreateFindCar(h)
    \/ \E h \in DOMAIN proc : CreateFindOverlap(h)
    \/ \E h \in DOMAIN proc : CreateInsert(h)
    \/ \E h \in DOMAIN proc : Free(h) /\ \E id \in RentalIds, body \in SeqUpdateBodies :
          PutRental(h, id, body, TRUE)
    \/ \E h \in DOMAIN proc : UpdateLoad(h)
    \/ \E h \in DOMAIN proc : UpdateFindOverlap(h)
    \/ \E h \in DOMAIN proc : UpdateFindCar(h)
    \/ \E h \in DOMAIN proc : UpdateWrite(h)
    \/ \E h \in DOMAIN proc, id \in RentalIds : DeleteRental(h, id)
    \/ \E h \in DOMAIN proc : Respond(h)
    \/ \E c \in FlagCars : AllIdle /\ DeleteCar(c)
    \/ AllIdle /\ Tick

SpecSeq == Init /\ [][NextSeq]_vars

\* ------------------------------------------------ the API client
\* services/api.ts: the four API objects, their five methods, and
\* retryWithBackoff.  The outcome of one HTTP request is its status code
\* (NoResponse when no response is received); the server is not involved.
maxRetries == 3
initialDelay == 1000
maxDelay == 10000
backoffMultiplier == 2

NoResponse == 0
HttpOk == 200
HttpStatuses == {HttpOk, NoResponse, 400, 404, 429, 500, 503}

Apis == {"carApi", "employeeApi", "clientApi", "rentalApi"}
Methods == {"getAll", "getById", "create", "update", "delete"}

\* variant in which every method goes through retryWithBackoff
UsesRetryAlways(method) == TRUE

\* the methods whose request is wrapped in retryWithBackoff
UsesRetry(method) == method \in {"getAll", "getById"}

IsRetryableError(status) ==
    IF status = NoResponse THEN TRUE
    ELSE status >= 500 \/ status = 429

\* variant of the stop condition with > in place of >=
ShouldRethrowOffByOne(retryCount, status) ==
    retryCount > maxRetries \/ ~IsRetryableError(status)

\* retryWithBackoff: the error is rethrown instead of retried
ShouldRethrow(retryCount, status) ==
    retryCount >= maxRetries \/ ~IsRetryableError(status)

RECURSIVE Pow(_, _)
Pow(b, n) == IF n = 0 THEN 1 ELSE b * Pow(b, n - 1)

Delay(retryCount) ==
    LET d == initialDelay * Pow(backoffMultiplier, retryCount) IN
    IF d < maxDelay THEN d ELSE maxDelay

\* a method of an API object is called
ApiCall(api, method) ==
    /\ call = NoCall
    /\ call' = [fn |-> "api", api |-> api, method |-> method,
                pc |-> IF UsesRetry(method) THEN "retry" ELSE "send",
                retryCount |-> 0, sent |-> 0, delay |-> 0,
                last |-> NoResponse, result |-> "pending"]
    /\ UNCHANGED <<cars, rentals, nextId, today, proc, resp>>

\* retryWithBackoff: fn() is awaited; on an error it is rethrown or the
\* backoff delay is computed
Attempt(status) ==
    /\ call.fn = "api"
    /\ call.pc = "retry"
    /\ LET c == [call EXCEPT !.sent = call.sent + 1, !.last = status] IN
       call' = IF status = HttpOk
                 THEN [c EXCEPT !.pc = "done", !.result = "returned"]
               ELSE IF ShouldRethrow(call.retryCount, status)
                 THEN [c EXCEPT !.pc = "done", !.result = "thrown"]
               ELSE [c EXCEPT !.pc = "sleep", !.delay = Delay(call.retryCount)]
    /\ UNCHANGED <<cars, rentals, nextId, today, proc, resp>>

\* retryWithBackoff: the sleep is over, the recursive call starts
Wake ==
    /\ call.fn = "api"
    /\ call.pc = "sleep"
    /\ call' = [call EXCEPT !.pc = "retry", !.retryCount = call.retryCount + 1]
    /\ UNCHANGED <<cars, rentals, nextId, today, proc, resp>>

\* create, update, delete: one api.post / api.put / api.delete
SendOnce(status) ==
    /\ call.fn = "api"
    /\ call.pc = "send"
    /\ call' = [call EXCEPT !.sent = call.sent + 1, !.last = status, !.pc = "done",
                            !.result = IF status = HttpOk THEN "returned" ELSE "thrown"]
    /\ UNCHANGED <<cars, rentals, nextId, today, proc, resp>>

\* the method returns its data or throws through handleError
ApiReturn ==
    /\ call.fn = "api"
    /\ call.pc = "done"
    /\ call' = NoCall
    /\ UNCHANGED <<cars, rentals, nextId, today, proc, resp>>

NextApi ==
    \/ \E api \in Apis, method \in Methods : ApiCall(api, method)
    \/ \E status \in HttpStatuses : Attempt(status)
    \/ Wake
    \/ \E status \in HttpStatuses : SendOnce(status)
    \/ ApiReturn

SpecApi == Init /\ [][NextApi]_vars

\* every awaited request settles and every timer fires
SpecApiFair == SpecApi /\ WF_vars(NextApi)

\* ------------------------------------------- the client's car picker
\* Rentals.tsx availableCars, evaluated on the page's lists of cars and
\* rentals (as fetched from the store: `cars` and `rentals`), the dates of
\* the form and the rental being edited (0: none, a new rental).
HasConflict(carId, newStart, newEnd, editingId) ==
    \E i \in RentalIds :
        /\ rentals[i] # NoRental
        /\ i # editingId
        /\ rentals[i].car = carId
        /\ rentals[i].status # "cancelled"
        /\ newStart <= rentals[i].endDate /\ newEnd >= rentals[i].startDate

AvailableCars(newStart, newEnd, editingId) ==
    {c \in CarIds :
        /\ cars[c] \in CarStatuses
        /\ cars[c] # "maintenance"
        /\ \/ newStart = NoDate
           \/ newEnd = NoDate
           \/ ~HasConflict(c, newStart, newEnd, editingId)}

\* the lists a page can hold: any cars, any well-formed rentals
PickerRentals ==
    {NoRental} \cup
    {r \in [car : CarIds, client : {"client1"}, employee : {"emp1"},
            startDate : Instants, endDate : Instants, totalCost : {1},
            status : RentalStatuses] : r.endDate > r.startDate}

PickerInputs ==
    {q \in [fn : {"availableCars"}, newStart : Instants \cup {NoDate},
            newEnd : Instants \cup {NoDate}, editingId : {0} \cup RentalIds,
            result : {{"pending"}}] :
        \/ q.newStart = NoDate /\ q.newEnd = NoDate
        \/ q.newStart # NoDate /\ q.newEnd > q.newStart}

InitPicker ==
    /\ cars \in [CarIds -> CarStatuses]
    /\ rentals \in [RentalIds -> PickerRentals]
    /\ nextId = MaxRentals + 1
    /\ today = 0
    /\ proc = [h \in {"h1"} |-> Idle]
    /\ resp = [h \in {"h1"} |-> "none"]
    /\ call \in PickerInputs
    /\ call.editingId # 0 => rentals[call.editingId] # NoRental

EvalAvailableCars ==
    /\ call.fn = "availableCars"
    /\ call.result = {"pending"}
    /\ call' = [call EXCEPT !.result =
                   AvailableCars(call.newStart, call.newEnd, call.editingId)]
    /\ UNCHANGED <<cars, rentals, nextId, today, proc, resp>>

NextPicker == EvalAvailableCars

SpecPicker == InitPicker /\ [][NextPicker]_vars

\* ------------------------------------------- the overlap query alone
\* One evaluation of the $or of the overlap query, for every stored pair
\* S, E and every candidate pair start, end (well-formed or not).
QueryInputs ==
    [fn : {"overlapQuery"}, S : WideInstants, E : WideInstants,
     start : WideInstants, end : WideInstants, result : {"pending"}]

InitQuery == InitStore({"h1"}) /\ call \in QueryInputs

EvalQuery ==
    /\ call.fn = "overlapQuery"
    /\ call.result = "pending"
    /\ call' = [call EXCEPT !.result =
                   IF OverlapQuery(call.S, call.E, call.start, call.end)
                     THEN "match" ELSE "no match"]
    /\ UNCHANGED <<cars, rentals, nextId, today, proc, resp>>

NextQuery == EvalQuery

SpecQuery == InitQuery /\ [][NextQuery]_vars

\* ============================================================== claims
\* the overlap predicate of the specification: half-open intervals
Overlaps(s1, e1, s2, e2) == s1 < e2 /\ s2 < e1

\* closed-interval overlap: the intervals overlap or share an endpoint
ClosedOverlaps(s1, e1, s2, e2) == s1 <= e2 /\ s2 <= e1

Conflict == "Car is already booked for the selected dates"

InvalidInterval ==
    {"Start date cannot be in the past",
     "Start date cannot be in the past for active rentals",
     "End date must be after start date"}

Exists(i) == rentals[i] # NoRental

Active(i) == Exists(i) /\ rentals[i].status = "active"

Done(h, op) == proc[h].pc = "done" /\ proc[h].op = op

\* ---------------------------------------------------------------- C1
\* C1: in every reachable state no car has two distinct ACTIVE rentals whose
\* intervals overlap (B1.start < B2.end and B2.start < B1.end), under any
\* interleaving of concurrent create, update and delete requests.
C1_NoDoubleBooking ==
    \A i \in RentalIds, j \in RentalIds :
        (i # j /\ Active(i) /\ Active(j) /\ rentals[i].car = rentals[j].car)
            => ~Overlaps(rentals[i].startDate, rentals[i].endDate,
                         rentals[j].startDate, rentals[j].endDate)

\* ---------------------------------------------------------------- C2
\* C2: two concurrent creates for the same car and the identical interval
\* never both succeed: when both requests have been answered, it is not the
\* case that both got 201.
C2_NotBothCreated ==
    ~ \E g \in DOMAIN proc, h \in DOMAIN proc :
        /\ g # h
        /\ Done(g, "create") /\ Done(h, "create")
        /\ proc[g].body = proc[h].body
        /\ resp[g] = "201" /\ resp[h] = "201"

\* ------------------------------------------------- shared vocabulary
Terminal == {"completed", "cancelled"}

\* an ACTIVE rental other than excl on the car overlaps [s, e) (half-open)
HalfOpenConflict(car, s, e, excl) ==
    \E i \in RentalIds :
        /\ Active(i) /\ i # excl /\ rentals[i].car = car
        /\ Overlaps(rentals[i].startDate, rentals[i].endDate, s, e)

\* an ACTIVE rental other than excl on the car overlaps or touches [s, e]
ClosedConflict(car, s, e, excl) ==
    \E i \in RentalIds :
        /\ Active(i) /\ i # excl /\ rentals[i].car = car
        /\ ClosedOverlaps(rentals[i].startDate, rentals[i].endDate, s, e)

\* an ACTIVE rental other than excl on the car ends at s or starts at e
Touching(car, s, e, excl) ==
    \E i \in RentalIds :
        /\ Active(i) /\ i # excl /\ rentals[i].car = car
        /\ (rentals[i].endDate = s \/ rentals[i].startDate = e)

\* a COMPLETED or CANCELLED rental other than excl on the car overlaps [s, e)
FreedOverlap(car, s, e, excl) ==
    \E i \in RentalIds :
        /\ Exists(i) /\ i # excl /\ rentals[i].car = car
        /\ rentals[i].status \in Terminal
        /\ Overlaps(rentals[i].startDate, rentals[i].endDate, s, e)

\* handler h takes the step that leaves program point p
Leaves(h, p) == proc[h].pc = p /\ proc'[h].pc # p

TargetCar(h) == IF proc[h].body.car # NoId THEN proc[h].body.car ELSE proc[h].oldCar

C4_AmendConflict ==
    [][\A h \in DOMAIN proc :
          ( /\ Leaves(h, "u_findOverlap")
            /\ Active(proc[h].id)
            /\ TargetCar(h) = rentals[proc[h].id].car
            /\ ( proc[h].start # rentals[proc[h].id].startDate
                 \/ proc[h].end # rentals[proc[h].id].endDate )
            /\ HalfOpenConflict(TargetCar(h), proc[h].start, proc[h].end, proc[h].id) )
          => (resp'[h] = Conflict /\ rentals' = rentals)]_vars

C4_Witness ==
    \E h \in DOMAIN proc :
        /\ Done(h, "update")
        /\ resp[h] = Conflict
        /\ Active(proc[h].id)
        /\ proc[h].body.car \in {NoId, rentals[proc[h].id].car}
        /\ ( UpdateStart(proc[h].body, rentals[proc[h].id]) # rentals[proc[h].id].startDate
             \/ UpdateEnd(proc[h].body, rentals[proc[h].id]) # rentals[proc[h].id].endDate )
        /\ HalfOpenConflict(rentals[proc[h].id].car,
                            UpdateStart(proc[h].body, rentals[proc[h].id]),
                            UpdateEnd(proc[h].body, rentals[proc[h].id]), proc[h].id)

C6_TerminalStatus ==
    [][\A i \in RentalIds :
          (Exists(i) /\ rentals[i].status \in Terminal /\ rentals'[i] # NoRental)
          => rentals'[i].status = rentals[i].status]_vars

\* C6 (amended): a stored status changes only in the write of an update
\* whose patch carries the new status, answered 200; this holds from every
\* status, COMPLETED and CANCELLED included, and nothing else ever changes a
\* status.
C6_StatusOnlyByRequest ==
    [][\A i \in RentalIds :
          (Exists(i) /\ rentals'[i] # NoRental /\ rentals'[i].status # rentals[i].status)
          => \E h \in DOMAIN proc :
                /\ Leaves(h, "u_write")
                /\ proc[h].id = i
                /\ proc[h].body.status = rentals'[i].status
                /\ resp'[h] = "200"]_vars

C6_Witness ==
    \E h \in DOMAIN proc :
        /\ Done(h, "update")
        /\ resp[h] = "200"
        /\ proc[h].oldStatus \in Terminal
        /\ proc[h].body.status = "active"
        /\ Active(proc[h].id)

\* ---------------------------------------------------------------- C7
\* C7: an update of an ACTIVE rental that asks for COMPLETED or CANCELLED and
\* carries the rental's stored dates and car is answered 200, whatever the
\* server's current day.
C7_CloseAlwaysAccepted ==
    \A h \in DOMAIN proc :
        ( /\ Done(h, "update")
          /\ proc[h].oldStatus = "active"
          /\ proc[h].body.status \in Terminal
          /\ Exists(proc[h].id)
          /\ proc[h].body.car = proc[h].oldCar
          /\ proc[h].body.car = rentals[proc[h].id].car
          /\ proc[h].body.startDate = rentals[proc[h].id].startDate
          /\ proc[h].body.endDate = rentals[proc[h].id].endDate )
        => resp[h] = "200"

C9_InactiveAmendNoConflict ==
    \A h \in DOMAIN proc :
        ( /\ Done(h, "update")
          /\ proc[h].oldStatus \in Terminal
          /\ proc[h].body.status \in Terminal \cup {NoStatus} )
        => resp[h] # Conflict

\* C9 (amended): the overlap query of an update does not look at the status
\* of the rental being amended: for a COMPLETED or CANCELLED rental too, an
\* update carrying a date is rejected as a conflict exactly when its new
\* interval overlaps or touches an ACTIVE rental, other than itself, of the
\* target car.
C9_InactiveAmendConflict ==
    [][\A h \in DOMAIN proc :
          (Leaves(h, "u_findOverlap") /\ proc[h].oldStatus \in Terminal)
          => ( resp'[h] = Conflict
               <=> ClosedConflict(TargetCar(h), proc[h].start, proc[h].end, proc[h].id) )]_vars

C9_Witness ==
    \E h \in DOMAIN proc :
        /\ Done(h, "update")
        /\ resp[h] = Conflict
        /\ proc[h].oldStatus \in Terminal
        /\ proc[h].body.status \in Terminal \cup {NoStatus}
        /\ Exists(proc[h].id) /\ rentals[proc[h].id].status \in Terminal

\* --------------------------------------------------------------- C10
\* C10: a create with endDate <= startDate is answered at once with an
\* invalid-interval error (inverted interval, or past start date), in every
\* store state: it never gets in flight and is given no rental id.
C10_InvertedRejected ==
    \A h \in DOMAIN proc :
        (proc[h].op = "create" /\ proc[h].body.endDate <= proc[h].body.startDate)
        => /\ proc[h].pc = "done"
           /\ resp[h] \in InvalidInterval
           /\ proc[h].id = 0

C10_Witness ==
    \E h \in DOMAIN proc :
        /\ Done(h, "create")
        /\ proc[h].body.endDate <= proc[h].body.startDate
        /\ resp[h] = "End date must be after start date"
        /\ cars[proc[h].body.car] = "maintenance"
        /\ \E i \in RentalIds : Active(i) /\ rentals[i].car = proc[h].body.car

Arrives(h, op) == Free(h) /\ proc'[h].op = op

\* C12: a create (with well-formed ids and cost) whose startDate lies on a
\* calendar day before the server's current day is answered at once with
\* "Start date cannot be in the past", in every store state, and writes
\* nothing; a startDate on the server's current day is not rejected by this
\* check.
C12_PastStartRejected ==
    [][\A h \in DOMAIN proc :
          (Arrives(h, "create") /\ RentalValidation(proc'[h].body))
          => /\ DayOf(proc'[h].body.startDate) < today
                => ( /\ proc'[h].pc = "done"
                     /\ resp'[h] = "Start date cannot be in the past"
                     /\ rentals' = rentals /\ nextId' = nextId )
             /\ DayOf(proc'[h].body.startDate) = today
                => resp'[h] # "Start date cannot be in the past"]_vars

C12_Witness ==
    \E h \in DOMAIN proc :
        /\ Done(h, "create")
        /\ resp[h] = "Start date cannot be in the past"
        /\ proc[h].id = 0
        /\ DayOf(proc[h].body.startDate) < today
        /\ proc[h].body.endDate > proc[h].body.startDate
        /\ \E i \in RentalIds : Exists(i)

\* --------------------------------------------------------------- C13
\* C13: the past-date outcome of a create is a function of the request's
\* startDate and the server's day alone, and that of an update a function of
\* its start date, the server's day and the stored status alone: a create
\* (with well-formed ids and cost) is answered "Start date cannot be in the
\* past" exactly when its start day is before the server's day, an update
\* carrying a date is answered "... for active rentals" exactly when the
\* stored rental is ACTIVE and its start day is before the server's day,
\* whatever else the body carries (car, end date, cost, status, a client
\* clock).
C13_PastDecisionServerClock ==
    [][\A h \in DOMAIN proc :
          /\ (Arrives(h, "create") /\ RentalValidation(proc'[h].body))
             => ( resp'[h] = "Start date cannot be in the past"
                  <=> DayOf(proc'[h].body.startDate) < today )
          /\ ( /\ Leaves(h, "u_load")
               /\ Exists(proc[h].id)
               /\ UpdateDatesPresent(proc[h].body) )
             => ( resp'[h] = "Start date cannot be in the past for active rentals"
                  <=> ( /\ rentals[proc[h].id].status = "active"
                        /\ DayOf(UpdateStart(proc[h].body, rentals[proc[h].id])) < today ) )]_vars

C13_Witness ==
    \E h \in DOMAIN proc :
        /\ Done(h, "create")
        /\ proc[h].body.clientNow # NoDate
        /\ DayOf(proc[h].body.startDate) >= proc[h].body.clientNow
        /\ DayOf(proc[h].body.startDate) < today
        /\ resp[h] = "Start date cannot be in the past"

\* --------------------------------------------------------------- C14
PastStart ==
    {"Start date cannot be in the past",
     "Start date cannot be in the past for active rentals"}

\* C14: on update the past-start check applies to ACTIVE rentals only: a
\* request is answered with the past-start error only when it loads an
\* ACTIVE rental; an update of a COMPLETED or CANCELLED rental is never
\* answered with it; an update that carries a startDate before the server's
\* day for an ACTIVE rental is answered with it and writes nothing.
C14_PastCheckActiveOnly ==
    [][\A h \in DOMAIN proc :
          /\ (proc'[h].op = "update" /\ resp'[h] \in PastStart /\ resp[h] \notin PastStart)
             => (Leaves(h, "u_load") /\ Active(proc[h].id))
          /\ ( /\ Leaves(h, "u_load")
               /\ Active(proc[h].id)
               /\ proc[h].body.startDate # NoDate
               /\ DayOf(proc[h].body.startDate) < today )
             => ( /\ resp'[h] = "Start date cannot be in the past for active rentals"
                  /\ proc'[h].pc = "done"
                  /\ rentals' = rentals )]_vars

C14_Witness ==
    \E h \in DOMAIN proc :
        /\ Done(h, "update")
        /\ proc[h].oldStatus \in Terminal
        /\ proc[h].body.startDate # NoDate
        /\ DayOf(proc[h].body.startDate) < today
        /\ resp[h] = "200"
        /\ Exists(proc[h].id)
        /\ rentals[proc[h].id].startDate = proc[h].body.startDate

\* --------------------------------------------------------------- C15
ResourceUnavailable == "Car is currently in maintenance"

\* C15: a create that has passed the synchronous checks and finds its car in
\* maintenance is answered "Car is currently in maintenance" and writes
\* nothing, whether or not an ACTIVE rental of the car overlaps its interval;
\* and a create reaches the overlap query only from the car lookup, with the
\* car available.
C15_MaintenanceRejectsCreate ==
    [][\A h \in DOMAIN proc :
          /\ (Leaves(h, "c_findCar") /\ cars[proc[h].body.car] = "maintenance")
             => ( /\ resp'[h] = ResourceUnavailable
                  /\ proc'[h].pc = "done"
                  /\ rentals' = rentals /\ nextId' = nextId )
          /\ (proc'[h].pc = "c_findOverlap" /\ proc[h].pc # "c_findOverlap")
             => (proc[h].pc = "c_findCar" /\ cars[proc[h].body.car] = "available")]_vars

C15_Witness ==
    \E h \in DOMAIN proc :
        /\ Done(h, "create")
        /\ resp[h] = ResourceUnavailable
        /\ proc[h].id = 0
        /\ cars[proc[h].body.car] = "maintenance"
        /\ ~ClosedConflict(proc[h].body.car, proc[h].body.startDate,
                           proc[h].body.endDate, 0)

C17_CreatedActive ==
    [][\A h \in DOMAIN proc :
          (Leaves(h, "c_create") /\ resp'[h] = "201")
          => rentals'[nextId].status = "active"]_vars

\* C17 (amended): the rental stored by a create answered 201 has the status
\* the body carries, and ACTIVE when the body carries none.
C17_CreatedStatusFromBody ==
    [][\A h \in DOMAIN proc :
          (Leaves(h, "c_create") /\ resp'[h] = "201")
          => /\ rentals[nextId] = NoRental
             /\ rentals'[nextId].status \in RentalStatuses
             /\ rentals'[nextId].status =
                   IF proc[h].body.status = NoStatus THEN "active"
                   ELSE proc[h].body.status]_vars

C17_Witness ==
    \E h \in DOMAIN proc :
        /\ Done(h, "create")
        /\ resp[h] = "201"
        /\ proc[h].body.status = "completed"
        /\ Exists(proc[h].id)
        /\ rentals[proc[h].id].status = "completed"

\* --------------------------------------------------------------- C18
\* C18: a create whose client or employee id is well-formed but names no
\* stored client or employee is not answered 201 and stores no rental (it
\* fails as a create naming a car that does not exist fails).
C18_UnknownPartyRejected ==
    \A h \in DOMAIN proc :
        ( /\ Done(h, "create")
          /\ IsValidObjectId(proc[h].body.client)
          /\ IsValidObjectId(proc[h].body.employee)
          /\ ( proc[h].body.client \notin StoredClients
               \/ proc[h].body.employee \notin StoredEmployees ) )
        => (resp[h] # "201" /\ proc[h].id = 0)

C20_RejectionWritesNothing ==
    [][\A h \in DOMAIN proc :
          ( /\ proc'[h] # proc[h]
            /\ proc'[h].op \in {"create", "update"}
            /\ resp'[h] \notin {"200", "201"} )
          => (rentals' = rentals /\ cars' = cars /\ nextId' = nextId)]_vars

C20_Witness ==
    \E h \in DOMAIN proc :
        /\ Done(h, "update")
        /\ resp[h] = "End date must be after start date"
        /\ proc[h].body.endDate # NoDate
        /\ proc[h].body.endDate <= proc[h].body.startDate
        /\ Exists(proc[h].id)
        /\ rentals[proc[h].id].endDate > rentals[proc[h].id].startDate

\* --------------------------------------------------------------- C21
\* C21 (as claimed): a create whose startDate and endDate fall on the same
\* calendar day is never answered 201 and stores nothing, whatever their
\* times of day (it is a zero-length interval at day granularity).
C21_SameDayRejected ==
    \A h \in DOMAIN proc :
        ( /\ Done(h, "create")
          /\ RentalValidation(proc[h].body)
          /\ DayOf(proc[h].body.startDate) = DayOf(proc[h].body.endDate) )
        => (resp[h] # "201" /\ proc[h].id = 0)

\* C21 (amended): the order of start and end is decided on the instants,
\* time of day included; only the past check works on calendar days.  A
\* create (well-formed ids and cost, start day not before the server's day)
\* is answered "End date must be after start date" exactly when
\* endDate <= startDate as instants, so an interval within one calendar day
\* whose end is later in the day than its start passes the interval checks.
C21_InstantGranularity ==
    [][\A h \in DOMAIN proc :
          ( /\ Arrives(h, "create")
            /\ RentalValidation(proc'[h].body)
            /\ DayOf(proc'[h].body.startDate) >= today )
          => /\ resp'[h] = "End date must be after start date"
                <=> proc'[h].body.endDate <= proc'[h].body.startDate
             /\ proc'[h].body.endDate > proc'[h].body.startDate
                => proc'[h].pc = "c_findCar"]_vars

C21_Witness ==
    \E h \in DOMAIN proc :
        /\ Done(h, "create")
        /\ resp[h] = "201"
        /\ DayOf(proc[h].body.startDate) = DayOf(proc[h].body.endDate)
        /\ proc[h].body.endDate > proc[h].body.startDate
        /\ Exists(proc[h].id)
        /\ DayOf(rentals[proc[h].id].startDate) = DayOf(rentals[proc[h].id].endDate)

\* --------------------------------------------------------------- C22
\* C22: a car update that changes the availability flag leaves every stored
\* rental as it is (status, dates, car, client, employee, cost): the ACTIVE
\* rentals of a car stay ACTIVE when the car enters maintenance.
C22_FlagChangeKeepsRentals ==
    [][cars' # cars => (rentals' = rentals /\ nextId' = nextId)]_vars

C22_Witness ==
    \E c \in CarIds :
        /\ cars[c] = "maintenance"
        /\ \E i \in RentalIds : Active(i) /\ rentals[i].car = c
        /\ \A h \in DOMAIN proc : proc[h].pc = "idle"

\* --------------------------------------------------------------- C23
\* C23: an update whose rental has been deleted by the time of its write is
\* answered "Rental not found": an update is never answered with success for
\* a rental that does not exist when it writes.
C23_AmendOfDeletedNotFound ==
    [][\A h \in DOMAIN proc :
          (Leaves(h, "u_write") /\ ~Exists(proc[h].id))
          => resp'[h] = "Rental not found"]_vars

\* --------------------------------------------------------------- C24
\* C24: in every interleaving of a create with car updates, a rental is
\* stored only while its car is available: at the step that stores the
\* rental and answers 201 the car's flag is not maintenance.
C24_CreatedOnlyWhileAvailable ==
    [][\A h \in DOMAIN proc :
          (Leaves(h, "c_create") /\ resp'[h] = "201")
          => cars[proc[h].body.car] = "available"]_vars

\* --------------------------------------------------------------- C25
\* C25: for well-formed intervals (S < E, start < end) the three-clause
\* overlap query matches a stored [S, E] against a candidate [start, end]
\* exactly when S <= end and start <= E (closed-interval overlap); hence it
\* matches whenever the two overlap as half-open intervals.
C25_QueryIsClosedOverlap ==
    ( /\ call.fn = "overlapQuery"
      /\ call.result # "pending"
      /\ call.S < call.E /\ call.start < call.end )
    => /\ call.result = "match"
          <=> ClosedOverlaps(call.S, call.E, call.start, call.end)
       /\ Overlaps(call.S, call.E, call.start, call.end) => call.result = "match"

C25_Witness ==
    /\ call.fn = "overlapQuery"
    /\ call.result = "match"
    /\ call.S < call.E /\ call.start < call.end
    /\ call.start < call.S /\ call.E < call.end

\* --------------------------------------------------------------- C26
\* C26: with one request at a time and every update carrying the full field
\* set of the PUT route, no sequence of creates, updates (status changes
\* back to active and car reassignments included) and deletes reaches a
\* state in which an ACTIVE rental overlaps (half-open) another ACTIVE
\* rental of its car.
C26_SequentialNoDoubleBooking ==
    \A i \in RentalIds :
        Active(i) => ~HalfOpenConflict(rentals[i].car, rentals[i].startDate,
                                       rentals[i].endDate, i)

C26_Witness ==
    \E h \in DOMAIN proc :
        /\ Done(h, "update")
        /\ resp[h] = "200"
        /\ proc[h].oldStatus = "cancelled"
        /\ proc[h].body.status = "active"
        /\ proc[h].body.car # proc[h].oldCar
        /\ Active(proc[h].id)
        /\ \E j \in RentalIds : j # proc[h].id /\ Active(j)
                                /\ rentals[j].car = rentals[proc[h].id].car

\* --------------------------------------------------------------- C27
\* C27: in every reachable state the car of every stored ACTIVE rental
\* exists: deleting a car never leaves an ACTIVE rental that refers to it.
C27_ActiveRentalCarExists ==
    \A i \in RentalIds : Active(i) => cars[rentals[i].car] \in CarStatuses

\* --------------------------------------------------------------- C28
MaxAttempts == maxRetries + 1

\* an HTTP response with a status below 500 other than 429
NonRetryable(status) == status # NoResponse /\ status < 500 /\ status # 429

\* C28: retryWithBackoff invokes the request at most maxRetries + 1 = 4
\* times; an invocation is the last exactly when it succeeds, fails with a
\* non-retryable error, or is the 4th; the call then returns that result or
\* rethrows that error; and every call that has started terminates, given
\* that each request settles.
C28_RetryTerminates ==
    /\ [](call.fn = "api" => call.sent <= MaxAttempts)
    /\ [][(call.fn = "api" /\ call.pc = "retry")
          => /\ call'.sent = call.sent + 1
             /\ call'.pc = "done"
                <=> ( \/ call'.last = HttpOk
                      \/ NonRetryable(call'.last)
                      \/ call'.sent = MaxAttempts )
             /\ call'.pc = "done"
                => call'.result = IF call'.last = HttpOk THEN "returned"
                                  ELSE "thrown"
             /\ call'.pc # "done" => call'.pc = "sleep"]_vars
    /\ (call.fn = "api" /\ call.pc \in {"retry", "sleep"})
          ~> (call.fn = "api" /\ call.pc = "done")

C28_Witness ==
    /\ call.fn = "api"
    /\ call.pc = "done"
    /\ call.result = "thrown"
    /\ call.sent = MaxAttempts
    /\ IsRetryableError(call.last)

\* --------------------------------------------------------------- C29
\* C29: a create, update or delete call of any of the four API objects sends
\* at most one HTTP request, whatever the outcome; only getAll and getById
\* ever send a second one.
C29_MutationsSentOnce ==
    call.fn = "api"
    => /\ call.method \in {"create", "update", "delete"} => call.sent <= 1
       /\ call.sent > 1 => call.method \in {"getAll", "getById"}

C29_Witness ==
    /\ call.fn = "api"
    /\ call.method \in {"create", "update", "delete"}
    /\ call.pc = "done"
    /\ call.sent = 1
    /\ call.result = "thrown"
    /\ IsRetryableError(call.last)

\* --------------------------------------------------------------- C30
\* C30: the car picker leaves out a car that is not in maintenance, for the
\* selected dates, only because of an ACTIVE rental of that car other than
\* the one being edited whose dates overlap or touch the selection: rentals
\* that are cancelled or completed never remove a car from the list.
C30_OnlyActiveBlocks ==
    (call.fn = "availableCars" /\ call.result # {"pending"})
    => \A c \in CarIds :
          (cars[c] = "available" /\ c \notin call.result)
          => ClosedConflict(c, call.newStart, call.newEnd, call.editingId)

=============================================================================
